---- MODULE Spec2Model ----
(***************************************************************************)
(* Thermal-Time-Calculator: thermal_time, cum_thermal_time and the driver  *)
(* loop of main() in src/thermal_time_calculator.py.                       *)
(*                                                                         *)
(* Floating-point values are modelled as exact fractions <<n, d>> in       *)
(* lowest terms with d > 0; <<0, 0>> is NaN and <<1, 0>>, <<-1, 0>> are    *)
(* the infinities numpy produces for x / 0.0.  Every comparison with NaN   *)
(* is false, as in IEEE arithmetic.  Rounding error is not modelled.       *)
(***************************************************************************)
EXTENDS Integers, Sequences, FiniteSets, TLC

VARIABLES
    pc,         \* position of main(): "listdir", "loop", "closed", "done", "error"
    window,     \* args.window
    all_days,   \* args.all_days
    latitude,   \* latitude returned by read_weather
    raw,        \* rows of the current weather file as read_weather returns them
    df,         \* the prepared day table the loop iterates
    ind,        \* loop index of "for ind in range(len(df))"
    gs,         \* growing season flag threaded through the loop
    tt,         \* cumulative thermal time threaded through the loop
    hdr,        \* header lines in the output file named after the current "file"
    rows,       \* data lines in the output file named after the current "file"
    carried,    \* TRUE when the last "tt = 0.0; gs = 0" overwrote a GROWING flag and a nonzero total
    args,       \* arguments of a direct call of thermal_time / cum_thermal_time
    ret         \* <<>> before the call returns, <<result>> after

vars == <<pc, window, all_days, latitude, raw, df, ind, gs, tt, hdr, rows,
          carried, args, ret>>

mainVars == <<pc, window, all_days, latitude, raw, df, ind, gs, tt, hdr, rows, carried>>

----------------------------------------------------------------------------
(* Float arithmetic *)

Abs(n) == IF n < 0 THEN -n ELSE n

Sign(n) == IF n < 0 THEN -1 ELSE IF n > 0 THEN 1 ELSE 0

RECURSIVE GCD(_, _)
GCD(a, b) == IF b = 0 THEN a ELSE GCD(b, a % b)

Norm(n, d) ==
    IF d = 0 THEN <<Sign(n), 0>>
    ELSE LET g == GCD(Abs(n), Abs(d))
         IN  <<(Sign(d) * n) \div g, Abs(d) \div g>>

F(n) == <<n, 1>>

NaN == <<0, 0>>

IsNaN(x) == x = NaN

IsNumber(x) == x[2] # 0

Lt(a, b) == ~IsNaN(a) /\ ~IsNaN(b) /\ a # b
            /\ IF a[2] = 0 \/ b[2] = 0
                 THEN (a[2] = 0 /\ a[1] < 0) \/ (b[2] = 0 /\ b[1] > 0)
                 ELSE a[1] * b[2] < b[1] * a[2]

Le(a, b) == ~IsNaN(a) /\ ~IsNaN(b) /\ (a = b \/ Lt(a, b))

Ge(a, b) == Le(b, a)

Neg(a) == <<-a[1], a[2]>>

Add(a, b) ==
    IF IsNaN(a) \/ IsNaN(b) THEN NaN
    ELSE IF a[2] = 0 /\ b[2] = 0 THEN (IF a = b THEN a ELSE NaN)
    ELSE IF a[2] = 0 THEN a
    ELSE IF b[2] = 0 THEN b
    ELSE Norm(a[1] * b[2] + b[1] * a[2], a[2] * b[2])

Sub(a, b) == Add(a, Neg(b))

Mul(a, b) ==
    IF IsNaN(a) \/ IsNaN(b) THEN NaN
    ELSE IF a[2] = 0 \/ b[2] = 0 THEN <<Sign(a[1]) * Sign(b[1]), 0>>
    ELSE Norm(a[1] * b[1], a[2] * b[2])

Div(a, b) ==
    IF IsNaN(a) \/ IsNaN(b) THEN NaN
    ELSE IF a[2] = 0 /\ b[2] = 0 THEN NaN
    ELSE IF a[2] = 0 THEN <<a[1] * (IF b[1] < 0 THEN -1 ELSE 1), 0>>
    ELSE IF b[2] = 0 THEN F(0)
    ELSE Norm(a[1] * b[2], a[2] * b[1])

----------------------------------------------------------------------------
(* Calibration constants *)

T_THLD == 10
T_BASE == 6
T_OPT == 100
T_MAX == 100

(* Variant: the upper bound of the first branch is exclusive. *)
thermal_time_branch_strict(t_base, t_opt, tmax, tmp) ==
    IF Le(tmp, t_base) \/ Lt(tmax, tmp) THEN 1
    ELSE IF Lt(tmp, t_opt) THEN 2
    ELSE 3

(* The branch of the if / elif / else of thermal_time that is executed. *)
thermal_time_branch(t_base, t_opt, tmax, tmp) ==
    IF Le(tmp, t_base) \/ Ge(tmp, tmax) THEN 1
    ELSE IF Lt(tmp, t_opt) THEN 2
    ELSE 3

(* Variant: the descending ramp is scaled by tmax - t_base. *)
thermal_time_scaled(t_base, t_opt, tmax, tmp) ==
    LET branch == thermal_time_branch(t_base, t_opt, tmax, tmp)
    IN  IF branch = 1 THEN F(0)
        ELSE IF branch = 2 THEN Sub(tmp, t_base)
        ELSE Mul(Div(Sub(tmax, tmp), Sub(tmax, t_opt)), Sub(tmax, t_base))

thermal_time(t_base, t_opt, tmax, tmp) ==
    LET branch == thermal_time_branch(t_base, t_opt, tmax, tmp)
    IN  IF branch = 1 THEN F(0)
        ELSE IF branch = 2 THEN Sub(tmp, t_base)
        ELSE Mul(Div(Sub(tmax, tmp), Sub(tmax, t_opt)), Sub(t_opt, t_base))

(* The two conditional assignments to gs. *)
season_gate(lat, doy, tmp, gs0) ==
    LET gs1 == IF Ge(lat, F(0))
                 THEN IF doy < 152 /\ Ge(tmp, F(T_THLD)) THEN 1 ELSE gs0
                 ELSE gs0
    IN  IF Ge(lat, F(0))
          THEN IF doy >= 245 /\ Lt(tmp, F(T_THLD)) THEN 0 ELSE gs1
          ELSE gs1

(* Variant: the total is accumulated whatever the flag. *)
cum_thermal_time_ungated(lat, doy, tmp, tavg, gs0, tt0) ==
    <<season_gate(lat, doy, tmp, gs0),
      Add(thermal_time(F(T_BASE), F(T_OPT), F(T_MAX), tavg), tt0)>>

(* Variant: the total pauses on a dormant day instead of being reset. *)
cum_thermal_time_paused(lat, doy, tmp, tavg, gs0, tt0) ==
    LET g == season_gate(lat, doy, tmp, gs0)
    IN  <<g, IF g = 1 THEN Add(thermal_time(F(T_BASE), F(T_OPT), F(T_MAX), tavg), tt0)
                      ELSE tt0>>

(* Variant: the spring window includes day 152. *)
cum_thermal_time_day152(lat, doy, tmp, tavg, gs0, tt0) ==
    LET gs1 == IF Ge(lat, F(0))
                 THEN IF doy <= 152 /\ Ge(tmp, F(T_THLD)) THEN 1 ELSE gs0
                 ELSE gs0
        gs2 == IF Ge(lat, F(0))
                 THEN IF doy >= 245 /\ Lt(tmp, F(T_THLD)) THEN 0 ELSE gs1
                 ELSE gs1
    IN  <<gs2, IF gs2 = 1 THEN Add(thermal_time(F(T_BASE), F(T_OPT), F(T_MAX), tavg), tt0)
                          ELSE F(0)>>

(* Variant: the gate is applied in both hemispheres. *)
cum_thermal_time_anylat(lat, doy, tmp, tavg, gs0, tt0) ==
    LET gs1 == IF doy < 152 /\ Ge(tmp, F(T_THLD)) THEN 1 ELSE gs0
        gs2 == IF doy >= 245 /\ Lt(tmp, F(T_THLD)) THEN 0 ELSE gs1
    IN  <<gs2, IF gs2 = 1 THEN Add(thermal_time(F(T_BASE), F(T_OPT), F(T_MAX), tavg), tt0)
                          ELSE F(0)>>

(* Returns <<gs, tt>>. *)
cum_thermal_time(lat, doy, tmp, tavg, gs0, tt0) ==
    LET gs2 == season_gate(lat, doy, tmp, gs0)
    IN  <<gs2,
          IF gs2 = 1
            THEN Add(thermal_time(F(T_BASE), F(T_OPT), F(T_MAX), tavg), tt0)
            ELSE F(0)>>

----------------------------------------------------------------------------
(* Direct calls of the two pure functions *)

Bases == {4, 6}
Opts == {8, 10, 100}
Maxs == {8, 10, 100}
Temps == {NaN} \cup {F(n) : n \in {2, 4, 6, 7, 8, 9, 10, 50, 100, 120}}

InitTT ==
    /\ pc = "thermal_time"
    /\ window = 0 /\ all_days = FALSE /\ latitude = NaN
    /\ raw = <<>> /\ df = <<>> /\ ind = 0 /\ gs = 0 /\ tt = F(0)
    /\ hdr = <<>> /\ rows = <<>> /\ carried = FALSE
    /\ args \in [t_base : {F(n) : n \in Bases}, t_opt : {F(n) : n \in Opts},
                 tmax : {F(n) : n \in Maxs}, tmp : Temps]
    /\ ret = <<>>

CallThermalTime ==
    /\ pc = "thermal_time" /\ ret = <<>>
    /\ ret' = <<[branch |-> thermal_time_branch(args.t_base, args.t_opt, args.tmax, args.tmp),
                 value |-> thermal_time(args.t_base, args.t_opt, args.tmax, args.tmp)]>>
    /\ UNCHANGED <<mainVars, args>>

SpecTT == InitTT /\ [][CallThermalTime]_vars

Lats == {F(-30), F(0), F(45)}
CallDoys == {1, 100, 151, 152, 200, 244, 245, 366}
CallTemps == {NaN, F(8), F(10), F(12)}
PriorTotals == {NaN, F(0), F(5)}

InitCum ==
    /\ pc = "cum_thermal_time"
    /\ window = 0 /\ all_days = FALSE /\ latitude = NaN
    /\ raw = <<>> /\ df = <<>> /\ ind = 0 /\ gs = 0 /\ tt = F(0)
    /\ hdr = <<>> /\ rows = <<>> /\ carried = FALSE
    /\ args \in [latitude : Lats, doy : CallDoys, tmp : CallTemps,
                 tavg : CallTemps, gs : {0, 1}, tt0 : PriorTotals]
    /\ ret = <<>>

CallCumThermalTime ==
    /\ pc = "cum_thermal_time" /\ ret = <<>>
    /\ ret' = <<cum_thermal_time(args.latitude, args.doy, args.tmp, args.tavg,
                                 args.gs, args.tt0)>>
    /\ UNCHANGED <<mainVars, args>>

SpecCum == InitCum /\ [][CallCumThermalTime]_vars

----------------------------------------------------------------------------
(* main() *)

MaxRows == 3

Windows == {0, 1, 2}
FileLats == {F(-30), F(45)}
Years == {2000}
Doys == {100, 250, 366}
RawTmax == {9, 16}
RawTmin == {8}

(* Data lines of a weather file *)
RawRows == [year : Years, doy : Doys, tmax : RawTmax, tmin : RawTmin]

Files == UNION {[1..n -> RawRows] : n \in 0..MaxRows}

Half == <<1, 2>>

(* na_values=[-999] of pandas.read_csv *)
na_values(v) == IF v = -999 THEN NaN ELSE F(v)

(* The DataFrame read_weather returns for the data lines recs. *)
read_weather(recs) ==
    [i \in 1..Len(recs) |->
        LET tmax == na_values(recs[i].tmax)
            tmin == na_values(recs[i].tmin)
        IN  [year |-> recs[i].year, doy |-> recs[i].doy, tmax |-> tmax, tmin |-> tmin,
             tavg |-> Add(Mul(Half, tmax), Mul(Half, tmin))]]

RECURSIVE SumValid(_)
SumValid(s) ==
    IF s = <<>> THEN F(0)
    ELSE IF IsNaN(Head(s)) THEN SumValid(Tail(s))
    ELSE Add(Head(s), SumValid(Tail(s)))

(* mean() of pandas: NaN entries are skipped, no valid entry gives NaN *)
Mean(s) ==
    LET valid == SelectSeq(s, LAMBDA x : ~IsNaN(x))
    IN  IF valid = <<>> THEN NaN ELSE Div(SumValid(valid), F(Len(valid)))

Max(a, b) == IF a > b THEN a ELSE b

(* df.rolling(window, min_periods=1).mean()['tavg'] *)
rolling_mean(t, w) ==
    [i \in 1..Len(t) |->
        Mean([j \in 1..(i - Max(1, i - w + 1) + 1) |-> t[Max(1, i - w + 1) + j - 1].tavg])]

RECURSIVE SortSet(_)
SortSet(S) ==
    IF S = {} THEN <<>>
    ELSE LET m == CHOOSE x \in S : \A y \in S : x <= y
         IN  <<m>> \o SortSet(S \ {m})

Column(t, d, c) ==
    LET g == SelectSeq(t, LAMBDA r : r.doy = d)
    IN  [i \in 1..Len(g) |-> IF c = "year" THEN F(g[i].year) ELSE g[i][c]]

(* df.groupby('doy').mean(), as the sequence of its index labels *)
groupby_index(t) == SortSet({t[i].doy : i \in 1..Len(t)})

(* df.groupby('doy').mean().drop(366).reset_index() *)
groupby_mean_drop(t) ==
    LET keys == SelectSeq(groupby_index(t), LAMBDA d : d # 366)
    IN  [i \in 1..Len(keys) |->
            [doy |-> keys[i],
             year |-> Mean(Column(t, keys[i], "year")),
             tmax |-> Mean(Column(t, keys[i], "tmax")),
             tmin |-> Mean(Column(t, keys[i], "tmin")),
             tavg |-> Mean(Column(t, keys[i], "tavg"))]]

write_header_line(a, w) ==
    IF a THEN <<"YEAR", "DOY", "TAVG", "TMA" \o ToString(w), "TT", "GROWING">>
    ELSE <<"DOY", "TAVG", "TT", "GROWING">>

(* The values write_tt_line formats into one line. *)
write_tt_line(a, r, t, g) ==
    IF a THEN [year |-> r.year, doy |-> r.doy, tavg |-> r.tavg, tma |-> r.tma,
               tt |-> t, gs |-> g]
    ELSE [doy |-> r.doy, tavg |-> r.tavg, tt |-> t, gs |-> g]

(* the moving average column added in the all_days branch *)
add_tma(t, w) ==
    LET tma == rolling_mean(t, w)
    IN  [i \in 1..Len(t) |->
            [year |-> t[i].year, doy |-> t[i].doy, tmax |-> t[i].tmax,
             tmin |-> t[i].tmin, tavg |-> t[i].tavg, tma |-> tma[i]]]

(* Variant: the loop starts from the values the previous file left. *)
initial_state_kept == <<gs, tt>>

(* "tt = 0.0; gs = 0" before the loop, as <<gs, tt>> *)
initial_state == <<0, F(0)>>

(* Variant: every iteration reads the first row. *)
iloc_first(t, i) == t[1]

(* df.iloc[ind] *)
iloc(t, i) == t[i + 1]

(* The third argument of the call in the loop: 'tma' if all_days else 'tavg'. *)
reference_temp(a, r) == IF a THEN r.tma ELSE r.tavg

Init ==
    /\ pc = "listdir"
    /\ window \in Windows
    /\ all_days \in BOOLEAN
    /\ latitude = NaN
    /\ raw = <<>> /\ df = <<>> /\ ind = 0
    /\ gs = 0 /\ tt = F(0)
    /\ hdr = <<>> /\ rows = <<>>
    /\ carried = FALSE
    /\ args = <<>> /\ ret = <<>>

(* for file in os.listdir(path): the entry lacks the extension; continue *)
SkipFile ==
    /\ pc = "listdir"
    /\ UNCHANGED vars

(* The loop body for a matching file up to the inner loop: read_weather     *)
(* (read_csv raises when there is no data line), the table preparation      *)
(* (rolling raises on window <= 0, drop(366) raises when no row has day     *)
(* 366), open(fn, 'w'), write_header_line, and the initial tt and gs.       *)
BeginFile ==
    /\ pc = "listdir"
    /\ \E lat \in FileLats, recs \in Files :
          LET t == read_weather(recs)
          IN  IF recs = <<>>
                THEN /\ pc' = "error"
                     /\ UNCHANGED <<latitude, raw, df, ind, gs, tt, hdr, rows, carried>>
              ELSE IF (all_days /\ window <= 0)
                      \/ (~all_days /\ \A i \in 1..Len(t) : t[i].doy # 366)
                THEN /\ pc' = "error"
                     /\ latitude' = lat
                     /\ raw' = t
                     /\ df' = t
                     /\ UNCHANGED <<ind, gs, tt, hdr, rows, carried>>
                ELSE /\ pc' = "loop"
                     /\ latitude' = lat
                     /\ raw' = t
                     /\ df' = IF all_days THEN add_tma(t, window) ELSE groupby_mean_drop(t)
                     /\ hdr' = <<write_header_line(all_days, window)>>
                     /\ rows' = <<>>
                     /\ gs' = initial_state[1]
                     /\ tt' = initial_state[2]
                     /\ ind' = 0
                     /\ carried' = (gs = 1 /\ tt # F(0))
    /\ UNCHANGED <<window, all_days, args, ret>>

(* one iteration of "for ind in range(len(df))" *)
LoopStep ==
    /\ pc = "loop" /\ ind < Len(df)
    /\ LET r == iloc(df, ind)
           res == cum_thermal_time(latitude, r.doy, reference_temp(all_days, r),
                                   r.tavg, gs, tt)
       IN  /\ gs' = res[1]
           /\ tt' = res[2]
           /\ rows' = Append(rows, write_tt_line(all_days, r, res[2], res[1]))
    /\ ind' = ind + 1
    /\ UNCHANGED <<pc, window, all_days, latitude, raw, df, hdr, carried, args, ret>>

(* range(len(df)) is exhausted: the with block closes the output file *)
EndFile ==
    /\ pc = "loop" /\ ind = Len(df)
    /\ pc' = "closed"
    /\ UNCHANGED <<window, all_days, latitude, raw, df, ind, gs, tt, hdr, rows,
                   carried, args, ret>>

(* Control returns to "for file in os.listdir(path)".  latitude, df and ind *)
(* are rebound before they are read again and the next output file is a    *)
(* different one, so the model forgets them here; gs and tt keep the values *)
(* the finished file left in them.                                          *)
NextFile ==
    /\ pc = "closed"
    /\ pc' = "listdir"
    /\ latitude' = NaN
    /\ raw' = <<>> /\ df' = <<>> /\ ind' = 0
    /\ hdr' = <<>> /\ rows' = <<>>
    /\ UNCHANGED <<window, all_days, gs, tt, carried, args, ret>>

(* os.listdir is exhausted: main returns *)
Finish ==
    /\ pc = "listdir"
    /\ pc' = "done"
    /\ UNCHANGED <<window, all_days, latitude, raw, df, ind, gs, tt, hdr, rows,
                   carried, args, ret>>

Next ==
    \/ SkipFile
    \/ BeginFile
    \/ LoopStep
    \/ EndFile
    \/ NextFile
    \/ Finish

Spec == Init /\ [][Next]_vars

----------------------------------------------------------------------------
(* Properties *)

Threshold == F(T_THLD)

InFile == pc \in {"loop", "closed"}

(* C1: a call of cum_thermal_time that returns flag 0 returns cumulative    *)
(* 0.0, whatever latitude, day, temperatures, prior flag and prior          *)
(* cumulative it was given.                                                 *)
C1_ResetInvariant ==
    ret # <<>> => (ret[1][1] = 0 => ret[1][2] = F(0))

C1_Witness ==
    /\ ret # <<>>
    /\ args.gs = 1 /\ args.tt0 = F(5)
    /\ ret[1][1] = 0 /\ ret[1][2] = F(0)

(* C2: for latitude >= 0 the new flag is GROWING when day < 152 and the     *)
(* reference temperature is >= threshold, DORMANT when day >= 245 and the   *)
(* reference temperature is < threshold, and the prior flag otherwise.      *)
C2_GateRule ==
    ret # <<>> /\ Ge(args.latitude, F(0)) =>
        ret[1][1] = IF args.doy < 152 /\ Ge(args.tmp, Threshold) THEN 1
                    ELSE IF args.doy >= 245 /\ Lt(args.tmp, Threshold) THEN 0
                    ELSE args.gs

C2_Witness ==
    /\ ret # <<>>
    /\ args.latitude = F(0)
    /\ args.doy = 152 /\ args.tmp = F(12) /\ args.gs = 0
    /\ ret[1][1] = 0

RECURSIVE BlockStart(_)
(* First row of the maximal block of consecutive GROWING rows ending at row i. *)
BlockStart(i) ==
    IF i > 1 /\ rows[i - 1].gs = 1 THEN BlockStart(i - 1) ELSE i

RECURSIVE SumIncrements(_, _)
SumIncrements(lo, hi) ==
    IF lo > hi THEN F(0)
    ELSE Add(SumIncrements(lo, hi - 1),
             thermal_time(F(T_BASE), F(T_OPT), F(T_MAX), df[hi].tavg))

(* C3: in a run of the driver loop from flag 0 and cumulative 0.0, the      *)
(* cumulative written on a GROWING day is the sum of the daily increments   *)
(* over the maximal block of consecutive GROWING days that ends at that     *)
(* day.                                                                     *)
C3_BlockSum ==
    InFile =>
        \A i \in 1..Len(rows) :
            rows[i].gs = 1 => rows[i].tt = SumIncrements(BlockStart(i), i)

C3_Witness ==
    /\ InFile
    /\ \E i \in 3..Len(rows) :
          /\ rows[i].gs = 1 /\ rows[i - 1].gs = 0
          /\ rows[i - 2].gs = 1 /\ Lt(F(0), rows[i - 2].tt)
          /\ Lt(F(0), rows[i].tt)
          /\ rows[i].tt = thermal_time(F(T_BASE), F(T_OPT), F(T_MAX), df[i].tavg)

(* C4: with latitude < 0 the flag is DORMANT on every row written for the   *)
(* file.                                                                    *)
C4_SouthernDormant ==
    InFile /\ Lt(latitude, F(0)) =>
        gs = 0 /\ \A i \in 1..Len(rows) : rows[i].gs = 0

C4_Witness ==
    /\ InFile /\ Lt(latitude, F(0))
    /\ \E i \in 1..Len(rows) :
          /\ df[i].doy < 152
          /\ Ge(reference_temp(all_days, df[i]), Threshold)
          /\ rows[i].gs = 0

(* C5 as claimed: for base < optimum <= max, thermal_time at temp = optimum *)
(* returns optimum - base.                                                  *)
C5_Original ==
    ret # <<>> /\ Lt(args.t_base, args.t_opt) /\ Le(args.t_opt, args.tmax)
               /\ args.tmp = args.t_opt
        => ret[1].value = Sub(args.t_opt, args.t_base)

(* C5 amended: for base < optimum < max, thermal_time at temp = optimum     *)
(* returns optimum - base; for optimum = max it returns 0.0 there.          *)
C5_Peak ==
    ret # <<>> /\ Lt(args.t_base, args.t_opt) /\ args.tmp = args.t_opt =>
        /\ Lt(args.t_opt, args.tmax) => ret[1].value = Sub(args.t_opt, args.t_base)
        /\ args.t_opt = args.tmax => ret[1].value = F(0)

C5_Witness ==
    /\ ret # <<>>
    /\ args.t_base = F(6) /\ args.t_opt = F(8) /\ args.tmax = F(10)
    /\ args.tmp = F(8)
    /\ ret[1].branch = 3 /\ ret[1].value = F(2)

(* C6: the first day of every file is evaluated with flag 0 and cumulative  *)
(* 0.0, whatever the previous file left, and the first row written is the   *)
(* result of that call.                                                     *)
C6_PerFileInitialState ==
    /\ pc = "loop" /\ ind = 0 => gs = 0 /\ tt = F(0)
    /\ InFile /\ Len(rows) >= 1 =>
          <<rows[1].gs, rows[1].tt>> =
              cum_thermal_time(latitude, df[1].doy, reference_temp(all_days, df[1]),
                               df[1].tavg, 0, F(0))

C6_Witness ==
    /\ carried
    /\ pc = "loop" /\ ind = 1 /\ Len(rows) = 1

(* The flag and cumulative passed to the call for row i. *)
PriorState(i) == IF i = 1 THEN <<0, F(0)>> ELSE <<rows[i - 1].gs, rows[i - 1].tt>>

(* C7: the loop writes one row per table row, in table order, each from the *)
(* call of cum_thermal_time on that row with the flag and cumulative of the *)
(* previous call; when the loop has ended the number of rows written is the *)
(* number of table rows, after exactly one header line.                     *)
C7_OneRowPerRecord ==
    /\ InFile =>
          /\ Len(hdr) = 1
          /\ Len(rows) = ind /\ ind <= Len(df)
          /\ \A i \in 1..Len(rows) :
                LET res == cum_thermal_time(latitude, df[i].doy,
                                            reference_temp(all_days, df[i]), df[i].tavg,
                                            PriorState(i)[1], PriorState(i)[2])
                IN  rows[i] = write_tt_line(all_days, df[i], res[2], res[1])
          /\ ind >= 1 => gs = rows[ind].gs /\ tt = rows[ind].tt
    /\ pc = "closed" => Len(rows) = Len(df)

C7_Witness ==
    /\ pc = "closed"
    /\ Len(df) >= 3 /\ Len(rows) = Len(df)
    /\ \E i \in 1..Len(df) : df[i].doy # df[1].doy

(* C8 as claimed: with window <= 0 no input file is read and no output file *)
(* is created.                                                              *)
C8_WindowRejected ==
    window <= 0 => raw = <<>> /\ hdr = <<>>

(* Distinct days of year 1..365 of the current input file, ascending. *)
InputDays == SortSet({raw[i].doy : i \in 1..Len(raw)} \ {366})

(* C9 as claimed: in Mode B, once the processing of a file has ended, its   *)
(* output holds one row for each distinct day of year 1..365 of the input,  *)
(* ascending, whether or not the input has a day 366 record.                *)
C9_DayOfYearRows ==
    ~all_days /\ pc \in {"closed", "error"} /\ raw # <<>> =>
        /\ Len(hdr) = 1
        /\ [i \in 1..Len(rows) |-> rows[i].doy] = InputDays

(* C10 as claimed: with optimum >= max some numeric temperature makes       *)
(* thermal_time evaluate its third branch.                                  *)
C10_Original ==
    ret # <<>> /\ Ge(args.t_opt, args.tmax) =>
        \E t \in Temps :
            IsNumber(t) /\ thermal_time_branch(args.t_base, args.t_opt, args.tmax, t) = 3

(* C10 amended: with optimum >= max the third branch is evaluated for a NaN *)
(* temperature and for no number; it then divides by max - optimum <= 0     *)
(* and returns NaN.                                                         *)
C10_DegenerateOnlyNaN ==
    ret # <<>> /\ Ge(args.t_opt, args.tmax) =>
        /\ ret[1].branch = 3 <=> IsNaN(args.tmp)
        /\ ret[1].branch = 3 =>
              Le(Sub(args.tmax, args.t_opt), F(0)) /\ IsNaN(ret[1].value)

C10_Witness ==
    /\ ret # <<>>
    /\ args.t_base = F(T_BASE) /\ args.t_opt = F(T_OPT) /\ args.tmax = F(T_MAX)
    /\ IsNaN(args.tmp)
    /\ ret[1].branch = 3 /\ IsNaN(ret[1].value)

====
